---- MODULE Spec2Model ----
(***************************************************************************)
(* Production line simulation: the C++ belt/worker classes and the plain C *)
(* array variant (simple.c).                                               *)
(***************************************************************************)
EXTENDS Integers, Sequences, FiniteSets, TLC

(***************************************************************************)
(* Bounds of the model.                                                    *)
(***************************************************************************)
\* Belt(slots): main uses 5 (entry, three worker slots, exit)
NumSlots == 4
\* workers registered per interior slot (main registers 2)
WorkersPerSlot == 1
\* iterations of the runSim loop that are explored
MaxSteps == 8
\* registration with free arguments: weights, workers, runSim(steps)
SetupMaxWeight == 1
SetupMaxWorkers == 2
SetupMaxSteps == 2
\* scheduler client: workers and weights
SchedMaxWorkers == 3
SchedMaxWeight == 2
\* single worker client: activations recorded
MaxLog == 7
\* belt client: advanceBelt is called while every counter is below this
BeltMaxCollected == 2
\* single-worker line: iterations of runSim
LineMaxSteps == 12
\* main's program followed further: iterations of runSim
LongMaxSteps == 9
\* simple.c: iterations of main's loop that are explored
SimpleMaxIterations == 12

(***************************************************************************)
(* Program constants.                                                      *)
(***************************************************************************)
ASSEMBLE_TIME == 4
NUMBER_OF_STEPS == 100
MainWeighting == 50
\* the value of ~0, the id of the null item
NULL_ITEM_ID == -1

\* the NULL pointer (ItemType *) and the NULL worker (Worker *)
NULL == "NULL"
NULLW == 0

\* item objects created by main: itemA, itemB, itemP and the null item
itemA == "A"
itemB == "B"
itemP == "P"
nullItem == "nullItem"
ItemObjects == {itemA, itemB, itemP, nullItem}
SlotValues == ItemObjects \cup {NULL}

\* ItemType::getId: the ascii name as a number; NULL_ITEM_ID for ItemType()
getId(it) ==
  CASE it = itemA -> 65
    [] it = itemB -> 66
    [] it = itemP -> 80
    [] OTHER -> NULL_ITEM_ID

\* ItemType::componentsRequired as set by main: only itemP has a (non-NULL)
\* array, { itemA, itemB, NULL }
hasComponentsRequired(it) == it = itemP
componentsRequired(it) == IF it = itemP THEN <<itemA, itemB>> ELSE <<>>

(***************************************************************************)
(* typedef float probability.  A finite float x is the integer x * 2^28;   *)
(* every operation rounds to a 24 bit significand, ties to even.  Quotients*)
(* of at least 1/16 are rounded exactly as IEEE single precision does.     *)
(***************************************************************************)
FOne == 268435456
FNaN == -2000000000

\* distance of neighbouring floats at magnitude n
FSpacing(n) ==
  IF n < 16777216 THEN 1
  ELSE IF n < 33554432 THEN 2
  ELSE IF n < 67108864 THEN 4
  ELSE IF n < 134217728 THEN 8
  ELSE IF n < 268435456 THEN 16
  ELSE 32

\* round q + r/t (0 <= r < t) to the nearest float, ties to even
FRoundRat(q, r, t) ==
  LET s == FSpacing(q)
      lo == (q \div s) * s
      twice == 2 * ((q - lo) * t + r)
  IN IF twice < s * t THEN lo
     ELSE IF twice > s * t THEN lo + s
     ELSE IF (lo \div s) % 2 = 0 THEN lo ELSE lo + s

FRound(n) == IF n < 0 THEN 0 - FRoundRat(0 - n, 0, 1) ELSE FRoundRat(n, 0, 1)

\* long division of w / t (0 <= w < t), `bits` more binary digits
RECURSIVE FLongDiv(_, _, _, _)
FLongDiv(q, r, t, bits) ==
  IF bits = 0 THEN <<q, r>>
  ELSE IF 2 * r >= t THEN FLongDiv(2 * q + 1, 2 * r - t, t, bits - 1)
  ELSE FLongDiv(2 * q, 2 * r, t, bits - 1)

\* ((probability) w) / ((probability) t) for small unsigned w <= t
FDiv(w, t) ==
  IF t = 0 THEN FNaN
  ELSE IF w = t THEN FOne
  ELSE LET qr == FLongDiv(0, w, t, 28) IN FRoundRat(qr[1], qr[2], t)

FAdd(a, b) == IF a = FNaN \/ b = FNaN THEN FNaN ELSE FRound(a + b)
FSub(a, b) == IF a = FNaN \/ b = FNaN THEN FNaN ELSE FRound(a - b)

\* getRandomNumber: random() / RAND_MAX, a float in [0, 1].  The draws of
\* the model are 0, 1/4, 1/2 and 1 (numerators over DrawDen); a product
\* with one of them is exact, so it is kept as the pair numerator * factor.
DrawDen == 4
Draws == {0, 1, 2, 4}

\* p <= cumulative, for p = pNum / DrawDen and a float cumulative
FLeqDraw(pNum, cumulative) ==
  IF cumulative = FNaN THEN FALSE ELSE pNum <= DrawDen * cumulative

VARIABLES
  pc,                           \* position in main / runSim
  itemsToMake,                  \* Belt::itemsToMake, head first
  finishedItems,                \* Belt::finishedItems (head)
  weight,                       \* ItemType::weight
  generationProbability,        \* ItemType::generationProbability
  numberCollected,              \* ItemType::numberCollected
  totalItemWeighting,
  workers,                      \* Belt::workers, head first (worker ids)
  wobj,                         \* the Worker objects, by id
  totalWorkerWeighting,
  currentWorkerMaxProbability,
  beltSlots,                    \* Belt::beltSlots; index numberOfSlots is
                                \* the cell behind the last slot
  steps, i, next, wk,           \* runSim: argument and locals
  activations,                  \* doWork calls per worker since advanceBelt
  returned,                     \* scheduler client: the workers returned by
                                \* getNextWorker since advanceBelt
  hw, log,                      \* worker client: one Worker object and the
                                \* record of its activations
  belt, simple_workers,         \* simple.c: belt[], workers[]
  iteration, windex, simple_pc, \* simple.c: main's loop counters, position
  compA, compB, compP, compNull,\* simple.c: main's tallies
  simple_last,                  \* simple.c: worker and slot as they were
                                \* when the latest doWork was entered
  simple_placed,                \* simple.c: the components that placeNewItem
                                \* has put on the input slot, by kind
  beltCall,                     \* belt client: the call it made last
  takenOff, putOn               \* runSim: the items that activations have
                                \* taken off the belt, by kind, and the
                                \* number of finished items put on it

partVars == <<pc, itemsToMake, finishedItems, weight, generationProbability,
              numberCollected, totalItemWeighting, workers, wobj,
              totalWorkerWeighting, currentWorkerMaxProbability, beltSlots,
              steps, i, next, wk, activations>>

schedVars == <<returned>>
harnessVars == <<hw, log>>
simpleVars == <<belt, simple_workers, iteration, windex, simple_pc,
                compA, compB, compP, compNull, simple_last, simple_placed>>
beltVars == <<beltCall>>
tallyVars == <<takenOff, putOn>>
nonPartVars == <<schedVars, harnessVars, simpleVars, beltVars, tallyVars>>

vars == <<partVars, schedVars, harnessVars, simpleVars, beltVars, tallyVars>>

numberOfSlots == NumSlots

\* Worker::Worker leaving the countdown at a non-zero value
NewWorkerAssembling ==
  [position |-> 0, weight |-> 0, workProbability |-> 0, doneWork |-> FALSE,
   amAssembling |-> 1, leftHand |-> NULL, rightHand |-> NULL]

\* Worker::Worker
NewWorker ==
  [position |-> 0, weight |-> 0, workProbability |-> 0, doneWork |-> FALSE,
   amAssembling |-> 0, leftHand |-> NULL, rightHand |-> NULL]

\* the two sorts of empty slot (Worker::doWork): NULL and the null item
EmptySlot(it) == it = NULL \/ getId(it) = NULL_ITEM_ID

\* ItemType::assemble; componentsAvailable without its NULL terminator
assemble(self, componentsAvailable) ==
  IF ~hasComponentsRequired(self) THEN NULL
  ELSE IF \A x \in 1..Len(componentsRequired(self)) :
            \E y \in 1..Len(componentsAvailable) :
              getId(componentsAvailable[y]) = getId(componentsRequired(self)[x])
       THEN self
       ELSE NULL

\* Worker::doWork starting the countdown one cycle short
doWorkShortCountdown(wr, it, finishedProductsToBuild) ==
  LET finishedThing == finishedProductsToBuild
      w0 == [wr EXCEPT !.doneWork = TRUE]
  IN IF w0.amAssembling > 0
     THEN LET w1 == [w0 EXCEPT !.amAssembling = @ - 1]
          IN [w |-> w1,
              out |-> IF w1.amAssembling = 0 THEN finishedThing ELSE it]
     ELSE LET hasContents == ~(it = NULL \/ getId(it) = NULL_ITEM_ID)
              takeLeft == hasContents /\ w0.leftHand = NULL
                          /\ it # w0.rightHand
              w1 == IF takeLeft THEN [w0 EXCEPT !.leftHand = it] ELSE w0
              takeRight == hasContents /\ w1.rightHand = NULL
                           /\ it # w1.leftHand
              w2 == IF takeRight THEN [w1 EXCEPT !.rightHand = it] ELSE w1
              start == /\ w2.leftHand # NULL
                       /\ w2.rightHand # NULL
                       /\ assemble(finishedThing,
                                   <<w2.leftHand, w2.rightHand>>) # NULL
              w3 == IF start
                    THEN [w2 EXCEPT !.amAssembling = ASSEMBLE_TIME - 1]
                    ELSE w2
          IN [w |-> w3, out |-> IF takeLeft \/ takeRight THEN NULL ELSE it]

\* Worker::doWork without the tests of the other hand (it != rightHand,
\* it != leftHand)
doWorkNoOtherHandTest(wr, it, finishedProductsToBuild) ==
  LET finishedThing == finishedProductsToBuild
      w0 == [wr EXCEPT !.doneWork = TRUE]
  IN IF w0.amAssembling > 0
     THEN LET w1 == [w0 EXCEPT !.amAssembling = @ - 1]
          IN [w |-> w1,
              out |-> IF w1.amAssembling = 0 THEN finishedThing ELSE it]
     ELSE LET hasContents == ~(it = NULL \/ getId(it) = NULL_ITEM_ID)
              takeLeft == hasContents /\ w0.leftHand = NULL
              w1 == IF takeLeft THEN [w0 EXCEPT !.leftHand = it] ELSE w0
              takeRight == hasContents /\ w1.rightHand = NULL
              w2 == IF takeRight THEN [w1 EXCEPT !.rightHand = it] ELSE w1
              start == /\ w2.leftHand # NULL
                       /\ w2.rightHand # NULL
                       /\ assemble(finishedThing,
                                   <<w2.leftHand, w2.rightHand>>) # NULL
              w3 == IF start THEN [w2 EXCEPT !.amAssembling = ASSEMBLE_TIME]
                    ELSE w2
          IN [w |-> w3, out |-> IF takeLeft \/ takeRight THEN NULL ELSE it]

\* Worker::doWork without out = NULL where a hand takes the item
doWorkLeavesTakenItem(wr, it, finishedProductsToBuild) ==
  LET finishedThing == finishedProductsToBuild
      w0 == [wr EXCEPT !.doneWork = TRUE]
  IN IF w0.amAssembling > 0
     THEN LET w1 == [w0 EXCEPT !.amAssembling = @ - 1]
          IN [w |-> w1,
              out |-> IF w1.amAssembling = 0 THEN finishedThing ELSE it]
     ELSE LET hasContents == ~(it = NULL \/ getId(it) = NULL_ITEM_ID)
              takeLeft == hasContents /\ w0.leftHand = NULL
                          /\ it # w0.rightHand
              w1 == IF takeLeft THEN [w0 EXCEPT !.leftHand = it] ELSE w0
              takeRight == hasContents /\ w1.rightHand = NULL
                           /\ it # w1.leftHand
              w2 == IF takeRight THEN [w1 EXCEPT !.rightHand = it] ELSE w1
              start == /\ w2.leftHand # NULL
                       /\ w2.rightHand # NULL
                       /\ assemble(finishedThing,
                                   <<w2.leftHand, w2.rightHand>>) # NULL
              w3 == IF start THEN [w2 EXCEPT !.amAssembling = ASSEMBLE_TIME]
                    ELSE w2
          IN [w |-> w3, out |-> it]

\* Worker::doWork on the worker object wr: the new object and the returned
\* slot content
doWork(wr, it, finishedProductsToBuild) ==
  LET finishedThing == finishedProductsToBuild
      w0 == [wr EXCEPT !.doneWork = TRUE]
  IN IF w0.amAssembling > 0
     THEN LET w1 == [w0 EXCEPT !.amAssembling = @ - 1]
          IN [w |-> w1,
              out |-> IF w1.amAssembling = 0 THEN finishedThing ELSE it]
     ELSE LET hasContents == ~(it = NULL \/ getId(it) = NULL_ITEM_ID)
              takeLeft == hasContents /\ w0.leftHand = NULL
                          /\ it # w0.rightHand
              w1 == IF takeLeft THEN [w0 EXCEPT !.leftHand = it] ELSE w0
              takeRight == hasContents /\ w1.rightHand = NULL
                           /\ it # w1.leftHand
              w2 == IF takeRight THEN [w1 EXCEPT !.rightHand = it] ELSE w1
              start == /\ w2.leftHand # NULL
                       /\ w2.rightHand # NULL
                       /\ assemble(finishedThing,
                                   <<w2.leftHand, w2.rightHand>>) # NULL
              w3 == IF start THEN [w2 EXCEPT !.amAssembling = ASSEMBLE_TIME]
                    ELSE w2
          IN [w |-> w3, out |-> IF takeLeft \/ takeRight THEN NULL ELSE it]

\* Belt::getNextItem comparing p < cumulative
RECURSIVE getNextItemFromStrict(_, _, _)
getNextItemFromStrict(idx, pNum, cumulative) ==
  IF idx > Len(itemsToMake) THEN NULL
  ELSE LET it == itemsToMake[idx]
           c == FAdd(cumulative, generationProbability[it])
       IN IF c # FNaN /\ pNum * FOne < DrawDen * c THEN it
          ELSE getNextItemFromStrict(idx + 1, pNum, c)

\* Belt::getNextItem for the draw pNum / DrawDen
RECURSIVE getNextItemFrom(_, _, _)
getNextItemFrom(idx, pNum, cumulative) ==
  IF idx > Len(itemsToMake) THEN NULL
  ELSE LET it == itemsToMake[idx]
           c == FAdd(cumulative, generationProbability[it])
       IN IF FLeqDraw(pNum * FOne, c) THEN it
          ELSE getNextItemFrom(idx + 1, pNum, c)

getNextItem(pNum) == getNextItemFrom(1, pNum, 0)

\* Belt::getNextWorker for the draw pNum / DrawDen: the worker returned
\* (NULLW when the walk falls off the list)
RECURSIVE getNextWorkerFrom(_, _, _)
getNextWorkerFrom(idx, pScaled, cumulative) ==
  IF idx > Len(workers) THEN NULLW
  ELSE IF wobj[workers[idx]].doneWork
       THEN getNextWorkerFrom(idx + 1, pScaled, cumulative)
       ELSE LET c == FAdd(cumulative, wobj[workers[idx]].workProbability)
            IN IF FLeqDraw(pScaled, c) THEN workers[idx]
               ELSE getNextWorkerFrom(idx + 1, pScaled, c)

getNextWorker(pNum) ==
  getNextWorkerFrom(1, pNum * currentWorkerMaxProbability, 0)

\* first loop of Belt::advanceBelt: for (i = lastSlot; i > (lastSlot - n); i--)
\* The comparison is unsigned: lastSlot - n wraps when n > lastSlot.
RECURSIVE countLoop(_, _, _, _)
countLoop(idx, lastSlot, n, collected) ==
  IF ~(lastSlot >= n /\ idx > lastSlot - n) THEN collected
  ELSE LET it == beltSlots[idx]
       IN countLoop(idx - 1, lastSlot, n,
                    IF it # NULL THEN [collected EXCEPT ![it] = @ + 1]
                    ELSE collected)

\* second loop of Belt::advanceBelt: for (i = numberOfSlots; i > 0; i--)
RECURSIVE shiftLoop(_, _, _)
shiftLoop(slots, idx, n) ==
  IF ~(idx > 0) THEN slots
  ELSE shiftLoop([slots EXCEPT ![idx] = IF idx >= n THEN slots[idx - n]
                                        ELSE NULL],
                 idx - 1, n)

\* Belt::advanceBelt without the loop over the workers
advanceBeltNoWorkerReset(n) ==
  /\ numberCollected' = countLoop(numberOfSlots - 1, numberOfSlots - 1, n,
                                  numberCollected)
  /\ beltSlots' = shiftLoop(beltSlots, numberOfSlots, n)
  /\ currentWorkerMaxProbability' = FOne
  /\ wobj' = wobj
  /\ activations' = [w \in DOMAIN activations |-> 0]

\* Belt::advanceBelt with the two loops exchanged: the slots are counted
\* after the shift
advanceBeltCountsAfterShift(n) ==
  /\ beltSlots' = shiftLoop(beltSlots, numberOfSlots, n)
  /\ numberCollected' =
       [k \in ItemObjects |->
          numberCollected[k] +
            Cardinality({s \in 0..(numberOfSlots - 1) :
                           s >= numberOfSlots - n /\ beltSlots'[s] = k})]
  /\ currentWorkerMaxProbability' = FOne
  /\ wobj' = [w \in DOMAIN wobj |-> [wobj[w] EXCEPT !.doneWork = FALSE]]
  /\ activations' = [w \in DOMAIN activations |-> 0]

\* Belt::advanceBelt
advanceBelt(n) ==
  /\ numberCollected' = countLoop(numberOfSlots - 1, numberOfSlots - 1, n,
                                  numberCollected)
  /\ beltSlots' = shiftLoop(beltSlots, numberOfSlots, n)
  /\ currentWorkerMaxProbability' = FOne
  /\ wobj' = [w \in DOMAIN wobj |-> [wobj[w] EXCEPT !.doneWork = FALSE]]
  /\ activations' = [w \in DOMAIN activations |-> 0]

(***************************************************************************)
(* main: construction and registration.                                    *)
(***************************************************************************)
InitPart ==
  /\ pc = "main_items"
  /\ itemsToMake = <<>>
  /\ finishedItems = NULL
  /\ weight = [it \in ItemObjects |-> 0]
  /\ generationProbability = [it \in ItemObjects |-> 0]
  /\ numberCollected = [it \in ItemObjects |-> 0]
  /\ totalItemWeighting = 0
  /\ workers = <<>>
  /\ wobj = <<>>
  /\ totalWorkerWeighting = 0
  /\ currentWorkerMaxProbability = FOne
  /\ beltSlots = [s \in 0..numberOfSlots |->
                    IF s < numberOfSlots THEN NULL ELSE "uninitialized"]
  /\ steps = 0
  /\ i = 0
  /\ next = NULL
  /\ wk = NULLW
  /\ activations = <<>>

\* the initial values of the other programs' and clients' variables
InitSched == returned = <<>>
InitHarness == hw = NewWorker /\ log = <<>>
InitBeltClient == beltCall = <<>>
InitTally == takenOff = [it \in ItemObjects |-> 0] /\ putOn = 0

\* the order in which main registers the item factories
MainItems == <<itemA, itemB, nullItem>>

\* Belt::addItemFactory setting the probability of the new kind only
AddItemFactoryNoRecalculation(newType, weighting) ==
  /\ pc = "main_items"
  /\ \A k \in 1..Len(itemsToMake) : itemsToMake[k] # newType
  /\ itemsToMake' = <<newType>> \o itemsToMake
  /\ weight' = [weight EXCEPT ![newType] = weighting]
  /\ totalItemWeighting' = totalItemWeighting + weighting
  /\ generationProbability' =
       [generationProbability EXCEPT
          ![newType] = FDiv(weighting, totalItemWeighting')]
  /\ UNCHANGED <<pc, finishedItems, numberCollected, workers, wobj,
                 totalWorkerWeighting, currentWorkerMaxProbability, beltSlots,
                 steps, i, next, wk, activations>>
  /\ UNCHANGED nonPartVars

\* Belt::addItemFactory
AddItemFactory(newType, weighting) ==
  /\ pc = "main_items"
  /\ \A k \in 1..Len(itemsToMake) : itemsToMake[k] # newType
  /\ itemsToMake' = <<newType>> \o itemsToMake
  /\ weight' = [weight EXCEPT ![newType] = weighting]
  /\ totalItemWeighting' = totalItemWeighting + weighting
  /\ generationProbability' =
       [it \in ItemObjects |->
          IF it = newType \/ \E k \in 1..Len(itemsToMake) : itemsToMake[k] = it
          THEN FDiv(weight'[it], totalItemWeighting')
          ELSE generationProbability[it]]
  /\ UNCHANGED <<pc, finishedItems, numberCollected, workers, wobj,
                 totalWorkerWeighting, currentWorkerMaxProbability, beltSlots,
                 steps, i, next, wk, activations>>
  /\ UNCHANGED nonPartVars

\* Belt::addFinishedItem
AddFinishedItem(fit) ==
  /\ pc = "main_items"
  /\ finishedItems' = fit
  /\ pc' = "main_workers"
  /\ UNCHANGED <<itemsToMake, weight, generationProbability, numberCollected,
                 totalItemWeighting, workers, wobj, totalWorkerWeighting,
                 currentWorkerMaxProbability, beltSlots, steps, i, next, wk,
                 activations>>
  /\ UNCHANGED nonPartVars

\* Belt::addWorker with a new Worker()
AddWorker(position, weighting) ==
  /\ pc = "main_workers"
  /\ LET id == Len(wobj) + 1
         total == totalWorkerWeighting + weighting
         added == Append(wobj, [NewWorker EXCEPT !.position = position,
                                                 !.weight = weighting])
     IN /\ workers' = <<id>> \o workers
        /\ totalWorkerWeighting' = total
        /\ wobj' = [w \in 1..id |->
                      [added[w] EXCEPT !.workProbability =
                                          FDiv(added[w].weight, total)]]
        /\ activations' = [w \in 1..id |-> 0]
  /\ currentWorkerMaxProbability' = FOne
  /\ UNCHANGED <<pc, itemsToMake, finishedItems, weight, generationProbability,
                 numberCollected, totalItemWeighting, beltSlots, steps, i,
                 next, wk>>
  /\ UNCHANGED nonPartVars

(***************************************************************************)
(* ProductionLine::runSim                                                  *)
(***************************************************************************)
\* sim->runSim(n)
RunSimStart(n) ==
  /\ pc = "main_workers"
  /\ pc' = "rs_loop"
  /\ steps' = n
  /\ i' = 0
  /\ UNCHANGED <<itemsToMake, finishedItems, weight, generationProbability,
                 numberCollected, totalItemWeighting, workers, wobj,
                 totalWorkerWeighting, currentWorkerMaxProbability, beltSlots,
                 next, wk, activations>>
  /\ UNCHANGED nonPartVars

\* loop test and next = belt->getNextItem(); return when it is NULL.  The
\* model follows the first `bound` iterations.
RunSimGetNextItemWithin(bound) ==
  /\ pc = "rs_loop"
  /\ i < steps
  /\ i < bound
  /\ \E pNum \in Draws :
       /\ next' = getNextItem(pNum)
       /\ pc' = IF next' = NULL THEN "rs_error" ELSE "rs_advance"
  /\ UNCHANGED <<itemsToMake, finishedItems, weight, generationProbability,
                 numberCollected, totalItemWeighting, workers, wobj,
                 totalWorkerWeighting, currentWorkerMaxProbability, beltSlots,
                 steps, i, wk, activations>>
  /\ UNCHANGED nonPartVars

RunSimGetNextItem == RunSimGetNextItemWithin(MaxSteps)

\* the loop ends after `steps` iterations
RunSimReturn ==
  /\ pc = "rs_loop"
  /\ ~(i < steps)
  /\ pc' = "rs_done"
  /\ UNCHANGED <<itemsToMake, finishedItems, weight, generationProbability,
                 numberCollected, totalItemWeighting, workers, wobj,
                 totalWorkerWeighting, currentWorkerMaxProbability, beltSlots,
                 steps, i, next, wk, activations>>
  /\ UNCHANGED nonPartVars

\* belt->advanceBelt(1)
RunSimAdvanceBelt ==
  /\ pc = "rs_advance"
  /\ advanceBelt(1)
  /\ pc' = "rs_insert"
  /\ UNCHANGED <<itemsToMake, finishedItems, weight, generationProbability,
                 totalItemWeighting, workers, totalWorkerWeighting, steps, i,
                 next, wk>>
  /\ UNCHANGED nonPartVars

\* belt->setSlot(next, 0)
RunSimSetSlot ==
  /\ pc = "rs_insert"
  /\ beltSlots' = [beltSlots EXCEPT ![0] = next]
  /\ pc' = "rs_select"
  /\ UNCHANGED <<itemsToMake, finishedItems, weight, generationProbability,
                 numberCollected, totalItemWeighting, workers, wobj,
                 totalWorkerWeighting, currentWorkerMaxProbability, steps, i,
                 next, wk, activations>>
  /\ UNCHANGED nonPartVars

\* wk = belt->getNextWorker()
RunSimGetNextWorker ==
  /\ pc = "rs_select"
  /\ \E pNum \in Draws :
       /\ wk' = getNextWorker(pNum)
       /\ currentWorkerMaxProbability' =
            IF wk' = NULLW THEN currentWorkerMaxProbability
            ELSE FSub(currentWorkerMaxProbability, wobj[wk'].workProbability)
  /\ pc' = "rs_work"
  /\ UNCHANGED <<itemsToMake, finishedItems, weight, generationProbability,
                 numberCollected, totalItemWeighting, workers, wobj,
                 totalWorkerWeighting, beltSlots, steps, i, next, activations>>
  /\ UNCHANGED nonPartVars

\* wk->getPosition(), getSlot, doWork and setSlot; wk is dereferenced
\* without a test, so a NULL wk ends the process
RunSimDoWork ==
  /\ pc = "rs_work"
  /\ IF wk = NULLW
     THEN /\ pc' = "rs_crash"
          /\ UNCHANGED <<wobj, beltSlots, i, activations, tallyVars>>
     ELSE LET workerPosition == wobj[wk].position
              it == beltSlots[workerPosition]
              r == doWork(wobj[wk], it, finishedItems)
              tookIt == \/ r.w.leftHand # wobj[wk].leftHand
                        \/ r.w.rightHand # wobj[wk].rightHand
              putFinished == wobj[wk].amAssembling > 0
                             /\ r.w.amAssembling = 0
          IN /\ wobj' = [wobj EXCEPT ![wk] = r.w]
             /\ beltSlots' = [beltSlots EXCEPT ![workerPosition] = r.out]
             /\ activations' = [activations EXCEPT ![wk] = @ + 1]
             /\ takenOff' = IF tookIt THEN [takenOff EXCEPT ![it] = @ + 1]
                            ELSE takenOff
             /\ putOn' = IF putFinished THEN putOn + 1 ELSE putOn
             /\ i' = i + 1
             /\ pc' = "rs_loop"
  /\ UNCHANGED <<itemsToMake, finishedItems, weight, generationProbability,
                 numberCollected, totalItemWeighting, workers,
                 totalWorkerWeighting, currentWorkerMaxProbability, steps,
                 next, wk>>
  /\ UNCHANGED <<schedVars, harnessVars, simpleVars, beltVars>>

(***************************************************************************)
(* The program: main's registrations, then runSim(NUMBER_OF_STEPS).        *)
(***************************************************************************)
NumWorkers == WorkersPerSlot * (numberOfSlots - 2)

\* main: belt->addItemFactory(itemA, 50), (itemB, 50), (nullItem, 50)
MainAddItemFactory ==
  /\ Len(itemsToMake) < Len(MainItems)
  /\ AddItemFactory(MainItems[Len(itemsToMake) + 1], MainWeighting)

\* main: belt->addFinishedItem(itemP)
MainAddFinishedItem ==
  /\ Len(itemsToMake) = Len(MainItems)
  /\ AddFinishedItem(itemP)

\* main: belt->addWorker(new Worker(), position), slot by slot from 1
MainAddWorker ==
  /\ Len(wobj) < NumWorkers
  /\ AddWorker((Len(wobj) \div WorkersPerSlot) + 1, MainWeighting)

\* main: sim->runSim(NUMBER_OF_STEPS)
MainRunSim ==
  /\ Len(wobj) = NumWorkers
  /\ RunSimStart(NUMBER_OF_STEPS)

(***************************************************************************)
(* Clients of the classes other than main.                                 *)
(***************************************************************************)
\* registration with free arguments (main's order of item objects)
SetupAddItemFactory ==
  /\ Len(itemsToMake) < Len(MainItems)
  /\ \E weighting \in 0..SetupMaxWeight :
       AddItemFactory(MainItems[Len(itemsToMake) + 1], weighting)

SetupAddFinishedItem == AddFinishedItem(itemP)

\* positions 0 .. numberOfSlots: addWorker accepts any position
SetupAddWorker ==
  /\ Len(wobj) < SetupMaxWorkers
  /\ \E position \in 0..numberOfSlots, weighting \in 0..SetupMaxWeight :
       AddWorker(position, weighting)

SetupRunSim == \E n \in 0..SetupMaxSteps : RunSimStart(n)

\* a client that activates every worker between two advanceBelt calls:
\* workers with positive weights, then advanceBelt(1) and, as often as there
\* are workers, getNextWorker followed by doWork on the worker returned
SchedAddWorker ==
  /\ Len(wobj) < SchedMaxWorkers
  /\ \E position \in 1..(numberOfSlots - 2), weighting \in 1..SchedMaxWeight :
       AddWorker(position, weighting)

SchedStart ==
  /\ pc = "main_workers"
  /\ Len(wobj) > 0
  /\ pc' = "sc_advance"
  /\ UNCHANGED <<itemsToMake, finishedItems, weight, generationProbability,
                 numberCollected, totalItemWeighting, workers, wobj,
                 totalWorkerWeighting, currentWorkerMaxProbability, beltSlots,
                 steps, i, next, wk, activations>>
  /\ UNCHANGED nonPartVars

SchedAdvanceBelt ==
  /\ pc = "sc_advance"
  /\ advanceBelt(1)
  /\ returned' = <<>>
  /\ pc' = "sc_select"
  /\ UNCHANGED <<itemsToMake, finishedItems, weight, generationProbability,
                 totalItemWeighting, workers, totalWorkerWeighting, steps, i,
                 next, wk>>
  /\ UNCHANGED <<harnessVars, simpleVars, beltVars, tallyVars>>

SchedGetNextWorker ==
  /\ pc = "sc_select"
  /\ \E pNum \in Draws :
       /\ wk' = getNextWorker(pNum)
       /\ currentWorkerMaxProbability' =
            IF wk' = NULLW THEN currentWorkerMaxProbability
            ELSE FSub(currentWorkerMaxProbability, wobj[wk'].workProbability)
  /\ returned' = Append(returned, wk')
  /\ pc' = IF wk' = NULLW THEN "sc_null" ELSE "sc_work"
  /\ UNCHANGED <<itemsToMake, finishedItems, weight, generationProbability,
                 numberCollected, totalItemWeighting, workers, wobj,
                 totalWorkerWeighting, beltSlots, steps, i, next, activations>>
  /\ UNCHANGED <<harnessVars, simpleVars, beltVars, tallyVars>>

SchedDoWork ==
  /\ pc = "sc_work"
  /\ LET workerPosition == wobj[wk].position
         it == beltSlots[workerPosition]
         r == doWork(wobj[wk], it, finishedItems)
     IN /\ wobj' = [wobj EXCEPT ![wk] = r.w]
        /\ beltSlots' = [beltSlots EXCEPT ![workerPosition] = r.out]
        /\ activations' = [activations EXCEPT ![wk] = @ + 1]
  /\ pc' = IF Len(returned) = Len(workers) THEN "sc_advance" ELSE "sc_select"
  /\ UNCHANGED <<itemsToMake, finishedItems, weight, generationProbability,
                 numberCollected, totalItemWeighting, workers,
                 totalWorkerWeighting, currentWorkerMaxProbability, steps, i,
                 next, wk>>
  /\ UNCHANGED nonPartVars

\* a client of one Worker object: doWork with any slot content, itemP being
\* the product to build; every activation is recorded
WorkerDoWork ==
  /\ Len(log) < MaxLog
  /\ \E it \in SlotValues :
       LET r == doWork(hw, it, itemP)
       IN /\ hw' = r.w
          /\ log' = Append(log, [offered |-> it, returned |-> r.out,
                                 w |-> r.w])
  /\ UNCHANGED <<partVars, schedVars, simpleVars, beltVars, tallyVars>>

\* main's registrations with a single worker, at slot 1, and
\* runSim(NUMBER_OF_STEPS), followed for LineMaxSteps iterations
LineAddWorker ==
  /\ Len(wobj) = 0
  /\ AddWorker(1, MainWeighting)

LineRunSim ==
  /\ Len(wobj) = 1
  /\ RunSimStart(NUMBER_OF_STEPS)

LineGetNextItem == RunSimGetNextItemWithin(LineMaxSteps)

\* main's program, followed for LongMaxSteps iterations of runSim
LongGetNextItem == RunSimGetNextItemWithin(LongMaxSteps)

\* a client of one Belt object: setSlot with an empty slot or a raw
\* component for any slot of the belt, and advanceBelt(n) for any n from 1
\* to numberOfSlots
BeltItems == {NULL, itemA, itemB}

BeltSetSlot ==
  /\ \E it \in BeltItems, slot \in 0..(numberOfSlots - 1) :
       /\ beltSlots' = [beltSlots EXCEPT ![slot] = it]
       /\ beltCall' = <<"setSlot", slot>>
  /\ UNCHANGED <<pc, itemsToMake, finishedItems, weight, generationProbability,
                 numberCollected, totalItemWeighting, workers, wobj,
                 totalWorkerWeighting, currentWorkerMaxProbability, steps, i,
                 next, wk, activations>>
  /\ UNCHANGED <<schedVars, harnessVars, simpleVars, tallyVars>>

BeltAdvanceBelt ==
  /\ \A k \in ItemObjects : numberCollected[k] < BeltMaxCollected
  /\ \E n \in 1..numberOfSlots :
       /\ advanceBelt(n)
       /\ beltCall' = <<"advanceBelt", n>>
  /\ UNCHANGED <<pc, itemsToMake, finishedItems, weight, generationProbability,
                 totalItemWeighting, workers, totalWorkerWeighting, steps, i,
                 next, wk>>
  /\ UNCHANGED <<schedVars, harnessVars, simpleVars, tallyVars>>

(***************************************************************************)
(* simple.c                                                                *)
(***************************************************************************)
COMPONENT_A == 1
COMPONENT_B == 2
COMPONENT_P == 3
COMPONENT_NULL == 0
TIME_TO_BUILD_COMPONENT_P == 4
INPUT_SLOT == 0
OUTPUT_SLOT == 4
ITERATIONS == 100
NUMBER_OF_WORKERS == 6

\* simple.c doWork without the test of belt[w->pos] before placing P
simple_doWorkNoRoomTest(w, b) ==
  LET assembling == w.buildTimeLeft > 0
      w1 == IF assembling THEN [w EXCEPT !.buildTimeLeft = @ - 1] ELSE w
      finished == assembling /\ w1.buildTimeLeft = 0
      w2 == IF finished
            THEN [w1 EXCEPT !.left = COMPONENT_NULL, !.right = COMPONENT_P]
            ELSE w1
  IN IF assembling /\ ~finished THEN [w |-> w2, belt |-> b]
     ELSE IF w2.right = COMPONENT_P
     THEN [w |-> [w2 EXCEPT !.left = COMPONENT_NULL,
                            !.right = COMPONENT_NULL],
           belt |-> [b EXCEPT ![w2.pos] = COMPONENT_P]]
     ELSE IF b[w2.pos] # COMPONENT_NULL /\ b[w2.pos] # COMPONENT_P
     THEN IF w2.right = COMPONENT_NULL
          THEN [w |-> [w2 EXCEPT !.right = b[w2.pos]],
                belt |-> [b EXCEPT ![w2.pos] = COMPONENT_NULL]]
          ELSE IF w2.right # b[w2.pos]
          THEN [w |-> [w2 EXCEPT !.left = b[w2.pos],
                                 !.buildTimeLeft = TIME_TO_BUILD_COMPONENT_P],
                belt |-> [b EXCEPT ![w2.pos] = COMPONENT_NULL]]
          ELSE [w |-> w2, belt |-> b]
     ELSE [w |-> w2, belt |-> b]

\* simple.c doWork(w, belt): the new worker and the new belt
simple_doWork(w, b) ==
  LET assembling == w.buildTimeLeft > 0
      w1 == IF assembling THEN [w EXCEPT !.buildTimeLeft = @ - 1] ELSE w
      finished == assembling /\ w1.buildTimeLeft = 0
      w2 == IF finished
            THEN [w1 EXCEPT !.left = COMPONENT_NULL, !.right = COMPONENT_P]
            ELSE w1
  IN IF assembling /\ ~finished THEN [w |-> w2, belt |-> b]
     ELSE IF w2.right = COMPONENT_P
     THEN IF b[w2.pos] = COMPONENT_NULL
          THEN [w |-> [w2 EXCEPT !.left = COMPONENT_NULL,
                                 !.right = COMPONENT_NULL],
                belt |-> [b EXCEPT ![w2.pos] = COMPONENT_P]]
          ELSE [w |-> w2, belt |-> b]
     ELSE IF b[w2.pos] # COMPONENT_NULL /\ b[w2.pos] # COMPONENT_P
     THEN IF w2.right = COMPONENT_NULL
          THEN [w |-> [w2 EXCEPT !.right = b[w2.pos]],
                belt |-> [b EXCEPT ![w2.pos] = COMPONENT_NULL]]
          ELSE IF w2.right # b[w2.pos]
          THEN [w |-> [w2 EXCEPT !.left = b[w2.pos],
                                 !.buildTimeLeft = TIME_TO_BUILD_COMPONENT_P],
                belt |-> [b EXCEPT ![w2.pos] = COMPONENT_NULL]]
          ELSE [w |-> w2, belt |-> b]
     ELSE [w |-> w2, belt |-> b]

\* simple.c placeNewItem for r = pNum / DrawDen: the item written to
\* belt[INPUT_SLOT] (r < ONE_THIRD, r <= TWO_THIRDS, otherwise)
simple_placeNewItem(pNum) ==
  IF 3 * pNum < DrawDen THEN COMPONENT_A
  ELSE IF 3 * pNum <= 2 * DrawDen THEN COMPONENT_B
  ELSE COMPONENT_NULL

\* simple.c main: bzero of belt and workers, the six positions
InitSimple ==
  /\ belt = [s \in 0..OUTPUT_SLOT |-> COMPONENT_NULL]
  /\ simple_workers =
       [k \in 0..(NUMBER_OF_WORKERS - 1) |->
          [pos |-> <<1, 1, 2, 2, 3, 3>>[k + 1], left |-> COMPONENT_NULL,
           right |-> COMPONENT_NULL, buildTimeLeft |-> 0]]
  /\ iteration = 0
  /\ windex = 0
  /\ simple_pc = "loop"
  /\ compA = 0
  /\ compB = 0
  /\ compP = 0
  /\ compNull = 0
  /\ simple_last = [windex |-> -1, left |-> COMPONENT_NULL,
                    right |-> COMPONENT_NULL, buildTimeLeft |-> 0,
                    slot |-> COMPONENT_NULL]
  /\ simple_placed = [c \in {COMPONENT_A, COMPONENT_B} |-> 0]

\* main's loop body up to placeNewItem: tally the output slot, move the belt
\* along, place a new item
SimpleIterate ==
  /\ simple_pc = "loop"
  /\ iteration < ITERATIONS
  /\ iteration < SimpleMaxIterations
  /\ compA' = IF belt[OUTPUT_SLOT] = COMPONENT_A THEN compA + 1 ELSE compA
  /\ compB' = IF belt[OUTPUT_SLOT] = COMPONENT_B THEN compB + 1 ELSE compB
  /\ compP' = IF belt[OUTPUT_SLOT] = COMPONENT_P THEN compP + 1 ELSE compP
  /\ compNull' = IF belt[OUTPUT_SLOT] = COMPONENT_NULL THEN compNull + 1
                 ELSE compNull
  /\ \E pNum \in Draws :
       /\ belt' = [s \in 0..OUTPUT_SLOT |->
                     IF s = INPUT_SLOT THEN simple_placeNewItem(pNum)
                     ELSE belt[s - 1]]
       /\ simple_placed' =
            IF simple_placeNewItem(pNum) = COMPONENT_NULL THEN simple_placed
            ELSE [simple_placed EXCEPT ![simple_placeNewItem(pNum)] = @ + 1]
  /\ windex' = 0
  /\ simple_pc' = "work"
  /\ UNCHANGED <<simple_workers, iteration, simple_last>>
  /\ UNCHANGED <<partVars, schedVars, harnessVars, beltVars, tallyVars>>

\* doWork(&workers[0], belt); windex++
SimpleDoWorkFirstWorker ==
  /\ simple_pc = "work"
  /\ windex < NUMBER_OF_WORKERS
  /\ LET w == simple_workers[0]
         r == simple_doWork(w, belt)
     IN /\ simple_workers' = [simple_workers EXCEPT ![0] = r.w]
        /\ belt' = r.belt
        /\ simple_last' = [windex |-> 0, left |-> w.left,
                           right |-> w.right,
                           buildTimeLeft |-> w.buildTimeLeft,
                           slot |-> belt[w.pos]]
  /\ windex' = windex + 1
  /\ UNCHANGED <<iteration, simple_pc, compA, compB, compP, compNull,
                 simple_placed>>
  /\ UNCHANGED <<partVars, schedVars, harnessVars, beltVars, tallyVars>>

\* doWork(&workers[windex], belt); windex++
SimpleDoWork ==
  /\ simple_pc = "work"
  /\ windex < NUMBER_OF_WORKERS
  /\ LET w == simple_workers[windex]
         r == simple_doWork(w, belt)
     IN /\ simple_workers' = [simple_workers EXCEPT ![windex] = r.w]
        /\ belt' = r.belt
        /\ simple_last' = [windex |-> windex, left |-> w.left,
                           right |-> w.right,
                           buildTimeLeft |-> w.buildTimeLeft,
                           slot |-> belt[w.pos]]
  /\ windex' = windex + 1
  /\ UNCHANGED <<iteration, simple_pc, compA, compB, compP, compNull,
                 simple_placed>>
  /\ UNCHANGED <<partVars, schedVars, harnessVars, beltVars, tallyVars>>

\* the worker loop ends; iteration++
SimpleEndIteration ==
  /\ simple_pc = "work"
  /\ ~(windex < NUMBER_OF_WORKERS)
  /\ iteration' = iteration + 1
  /\ simple_pc' = "loop"
  /\ UNCHANGED <<belt, simple_workers, windex, compA, compB, compP, compNull,
                 simple_last, simple_placed>>
  /\ UNCHANGED <<partVars, schedVars, harnessVars, beltVars, tallyVars>>

(***************************************************************************)
(* Specifications.                                                         *)
(***************************************************************************)
Init ==
  /\ InitPart
  /\ InitSched
  /\ InitHarness
  /\ InitSimple
  /\ InitBeltClient
  /\ InitTally

\* the C++ program: main, then runSim
Next ==
  \/ MainAddItemFactory
  \/ MainAddFinishedItem
  \/ MainAddWorker
  \/ MainRunSim
  \/ RunSimGetNextItem
  \/ RunSimAdvanceBelt
  \/ RunSimSetSlot
  \/ RunSimGetNextWorker
  \/ RunSimDoWork

Spec == Init /\ [][Next]_vars

\* registration with free arguments, then runSim
NextSetup ==
  \/ SetupAddItemFactory
  \/ SetupAddFinishedItem
  \/ SetupAddWorker
  \/ SetupRunSim
  \/ RunSimGetNextItem
  \/ RunSimReturn
  \/ RunSimAdvanceBelt
  \/ RunSimSetSlot
  \/ RunSimGetNextWorker
  \/ RunSimDoWork

SpecSetup == Init /\ [][NextSetup]_vars

\* the client that activates every worker in every interval
NextSched ==
  \/ MainAddItemFactory
  \/ MainAddFinishedItem
  \/ SchedAddWorker
  \/ SchedStart
  \/ SchedAdvanceBelt
  \/ SchedGetNextWorker
  \/ SchedDoWork

SpecSched == Init /\ [][NextSched]_vars

\* the client of one Worker object
NextWorker == WorkerDoWork

SpecWorker == Init /\ [][NextWorker]_vars

\* simple.c
NextSimple ==
  \/ SimpleIterate
  \/ SimpleDoWork
  \/ SimpleEndIteration

SpecSimple == Init /\ [][NextSimple]_vars

\* either program: the client of one Worker object of part_000, or simple.c
NextEither ==
  \/ (iteration = 0 /\ simple_pc = "loop" /\ WorkerDoWork)
  \/ (log = <<>> /\ SimpleIterate)
  \/ (log = <<>> /\ SimpleDoWork)
  \/ (log = <<>> /\ SimpleEndIteration)

SpecEither == Init /\ [][NextEither]_vars

\* either program: main of part_000 with runSim, or simple.c
NextPrograms ==
  \/ (iteration = 0 /\ simple_pc = "loop" /\ MainAddItemFactory)
  \/ MainAddFinishedItem
  \/ MainAddWorker
  \/ MainRunSim
  \/ RunSimGetNextItem
  \/ RunSimAdvanceBelt
  \/ RunSimSetSlot
  \/ RunSimGetNextWorker
  \/ RunSimDoWork
  \/ (itemsToMake = <<>> /\ SimpleIterate)
  \/ (itemsToMake = <<>> /\ SimpleDoWork)
  \/ (itemsToMake = <<>> /\ SimpleEndIteration)

SpecPrograms == Init /\ [][NextPrograms]_vars

\* the production line with a single worker
NextLine ==
  \/ MainAddItemFactory
  \/ MainAddFinishedItem
  \/ LineAddWorker
  \/ LineRunSim
  \/ LineGetNextItem
  \/ RunSimAdvanceBelt
  \/ RunSimSetSlot
  \/ RunSimGetNextWorker
  \/ RunSimDoWork

SpecLine == Init /\ [][NextLine]_vars

\* the C++ program, followed for LongMaxSteps iterations
NextLong ==
  \/ MainAddItemFactory
  \/ MainAddFinishedItem
  \/ MainAddWorker
  \/ MainRunSim
  \/ LongGetNextItem
  \/ RunSimAdvanceBelt
  \/ RunSimSetSlot
  \/ RunSimGetNextWorker
  \/ RunSimDoWork

SpecLong == Init /\ [][NextLong]_vars

\* the client of one Belt object
NextBelt ==
  \/ BeltSetSlot
  \/ BeltAdvanceBelt

SpecBelt == Init /\ [][NextBelt]_vars

(***************************************************************************)
(* Properties.                                                             *)
(***************************************************************************)

\* C1 (runSim): when an iteration of the loop is complete, doWork has been
\* called exactly once on every registered worker since the advanceBelt of
\* that iteration.
C1_EveryWorkerOncePerStep ==
  (pc \in {"rs_loop", "rs_advance"} /\ i > 0) =>
    \A w \in 1..Len(wobj) : activations[w] = 1

\* C2 (Worker::doWork): when the activation that returns the finished item
\* completes (the countdown goes from 1 to 0), both hands of the worker are
\* empty.
C2_HandsEmptyAfterFinishing ==
  [][(pc = "rs_work" /\ wk # NULLW /\ wobj[wk].amAssembling = 1) =>
       (wobj'[wk].leftHand = NULL /\ wobj'[wk].rightHand = NULL)]_vars

\* C3 (Worker::doWork): an activation entered with amAssembling > 0 and a raw
\* component in the worker's slot leaves the component in the slot and the
\* hands as they were.
C3_AssemblingLeavesComponent ==
  [][(pc = "rs_work" /\ wk # NULLW /\ wobj[wk].amAssembling > 0
      /\ beltSlots[wobj[wk].position] \in {itemA, itemB}) =>
       /\ beltSlots'[wobj[wk].position] = beltSlots[wobj[wk].position]
       /\ wobj'[wk].leftHand = wobj[wk].leftHand
       /\ wobj'[wk].rightHand = wobj[wk].rightHand]_vars

\* C4 (Belt::advanceBelt(1)): slot s + 1 holds afterwards what slot s held,
\* slot 0 is empty, and the counter of the kind in the last slot, and no
\* other, went up by one.
C4_AdvanceBeltShiftsByOne ==
  [][pc = "rs_advance" =>
       /\ \A s \in 0..(numberOfSlots - 2) : beltSlots'[s + 1] = beltSlots[s]
       /\ EmptySlot(beltSlots'[0])
       /\ numberCollected' =
            IF beltSlots[numberOfSlots - 1] = NULL THEN numberCollected
            ELSE [numberCollected EXCEPT
                    ![beltSlots[numberOfSlots - 1]] = @ + 1]]_vars

\* C5 (Worker::doWork): an activation that is offered the finished kind P
\* leaves the worker's hands unchanged and P in the slot.
C5_FinishedItemNotPickedUp ==
  [][(pc = "rs_work" /\ wk # NULLW
      /\ beltSlots[wobj[wk].position] = finishedItems) =>
       /\ beltSlots'[wobj[wk].position] = finishedItems
       /\ wobj'[wk].leftHand = wobj[wk].leftHand
       /\ wobj'[wk].rightHand = wobj[wk].rightHand]_vars

\* C6 (Worker::doWork, ItemType::assemble): a worker with empty hands and
\* countdown 0 that is offered A and then B (or B and then A) has taken both
\* and is assembling with countdown ASSEMBLE_TIME; the next ASSEMBLE_TIME - 1
\* activations, offered an empty slot, return an empty slot, and the
\* ASSEMBLE_TIME-th returns P.
C6_AssemblyAfterBothComponents ==
  \A j \in 1..Len(log) :
    LET pre == IF j = 1 THEN NewWorker ELSE log[j - 1].w
        quiet(k) == \A m \in 1..k : EmptySlot(log[j + 1 + m].offered)
    IN (/\ j + 1 <= Len(log)
        /\ pre.leftHand = NULL
        /\ pre.rightHand = NULL
        /\ pre.amAssembling = 0
        /\ {log[j].offered, log[j + 1].offered} = {itemA, itemB}) =>
         /\ log[j].returned = NULL
         /\ log[j + 1].returned = NULL
         /\ {log[j + 1].w.leftHand, log[j + 1].w.rightHand} = {itemA, itemB}
         /\ log[j + 1].w.amAssembling = ASSEMBLE_TIME
         /\ \A k \in 1..(ASSEMBLE_TIME - 1) :
              (j + 1 + k <= Len(log) /\ quiet(k)) =>
                /\ log[j + 1 + k].returned = log[j + 1 + k].offered
                /\ log[j + 1 + k].w.amAssembling = ASSEMBLE_TIME - k
         /\ (j + 1 + ASSEMBLE_TIME <= Len(log) /\ quiet(ASSEMBLE_TIME - 1)) =>
              log[j + 1 + ASSEMBLE_TIME].returned = itemP

\* offered A, B and then empty slots, the worker has just returned P
C6_Witness ==
  /\ Len(log) = 2 + ASSEMBLE_TIME
  /\ log[1].offered = itemA
  /\ log[2].offered = itemB
  /\ \A m \in 3..Len(log) : EmptySlot(log[m].offered)
  /\ log[Len(log)].returned = itemP

\* C7 (Belt::getNextWorker): between two advanceBelt calls, with doWork called
\* on every worker returned, every call returns a worker (not NULL) that no
\* earlier call of the interval returned.
C7_EveryCallReturnsAnotherWorker ==
  \A k \in 1..Len(returned) :
    /\ returned[k] # NULLW
    /\ \A j \in 1..(k - 1) : returned[j] # returned[k]

\* C8 (simple.c doWork): a worker that enters doWork with a finished P in its
\* right hand places it only on an empty slot and then has both hands
\* empty; when the slot is occupied neither the belt nor the worker
\* changes; no activation replaces a non-empty slot content by P.
C8_FinishedItemWaitsForEmptySlot ==
  [][(simple_pc = "work" /\ windex < NUMBER_OF_WORKERS
      /\ windex' = windex + 1) =>
       LET w == simple_workers[windex]
           wAfter == simple_workers'[windex]
       IN /\ (w.right = COMPONENT_P /\ belt[w.pos] = COMPONENT_NULL) =>
               /\ belt' = [belt EXCEPT ![w.pos] = COMPONENT_P]
               /\ wAfter.left = COMPONENT_NULL
               /\ wAfter.right = COMPONENT_NULL
          /\ (w.right = COMPONENT_P /\ belt[w.pos] # COMPONENT_NULL) =>
               /\ belt' = belt
               /\ wAfter = w
          /\ \A s \in 0..OUTPUT_SLOT :
               (belt'[s] = COMPONENT_P /\ belt[s] # COMPONENT_P) =>
                 belt[s] = COMPONENT_NULL]_vars

\* a worker entered doWork holding P, found its slot occupied and still
\* holds P
C8_Witness ==
  /\ simple_last.windex >= 0
  /\ simple_last.right = COMPONENT_P
  /\ simple_last.slot # COMPONENT_NULL
  /\ simple_workers[simple_last.windex].right = COMPONENT_P
  /\ belt[simple_workers[simple_last.windex].pos] = simple_last.slot

\* C9 (Belt::addWorker, Belt::addItemFactory): with a worker position outside
\* the belt or a total registered weight of zero, runSim executes no step:
\* it never gets past the first getNextItem.
C9_InvalidConfigurationRunsNoStep ==
  (/\ pc \notin {"main_items", "main_workers"}
   /\ \/ \E w \in 1..Len(wobj) : wobj[w].position >= numberOfSlots
      \/ totalItemWeighting = 0
      \/ totalWorkerWeighting = 0) =>
    (i = 0 /\ pc \in {"rs_loop", "rs_error", "rs_done"})

\* C10 (runSim): after a draw that selected no candidate the run is given up
\* without a further belt advance, slot write, activation or use of the
\* missing candidate.
C10_FailedDrawAbortsRun ==
  [][/\ (pc = "rs_work" /\ wk = NULLW) =>
          (pc' = "rs_error"
           /\ UNCHANGED <<beltSlots, wobj, numberCollected, i>>)
     /\ pc = "rs_error" => UNCHANGED vars]_vars

\* C11 (Worker::doWork under runSim): a worker whose countdown is running
\* holds something in both hands, one A and one B between them (the recipe of
\* the finished kind), and the countdown never exceeds ASSEMBLE_TIME.
C11_AssemblingHoldsRecipe ==
  \A w \in 1..Len(wobj) :
    /\ wobj[w].amAssembling <= ASSEMBLE_TIME
    /\ wobj[w].amAssembling > 0 =>
         /\ wobj[w].leftHand # NULL
         /\ wobj[w].rightHand # NULL
         /\ {wobj[w].leftHand, wobj[w].rightHand} =
              {componentsRequired(finishedItems)[k] :
                 k \in 1..Len(componentsRequired(finishedItems))}

\* in runSim a worker is one activation away from finishing its assembly
C11_Witness ==
  /\ pc = "rs_loop"
  /\ i > 0
  /\ \E w \in 1..Len(wobj) : wobj[w].amAssembling = 1

\* C12 (Worker::doWork of part_000, doWork of simple.c): a worker never holds
\* the same kind in both hands, and an activation of a worker with one
\* empty hand that is offered the kind held in the other hand leaves the
\* hands as they were and the offered component in the slot.
C12_NoSameKindInBothHands ==
  /\ \A j \in 1..Len(log) :
       LET pre == IF j = 1 THEN NewWorker ELSE log[j - 1].w
           post == log[j].w
           held == IF pre.leftHand # NULL THEN pre.leftHand ELSE pre.rightHand
       IN /\ (post.leftHand # NULL /\ post.rightHand # NULL) =>
               post.leftHand # post.rightHand
          /\ (/\ (pre.leftHand = NULL) # (pre.rightHand = NULL)
              /\ log[j].offered = held) =>
               /\ log[j].returned = log[j].offered
               /\ post.leftHand = pre.leftHand
               /\ post.rightHand = pre.rightHand
  /\ \A k \in 0..(NUMBER_OF_WORKERS - 1) :
       (/\ simple_workers[k].left # COMPONENT_NULL
        /\ simple_workers[k].right # COMPONENT_NULL) =>
         simple_workers[k].left # simple_workers[k].right
  /\ (/\ simple_pc = "work"
      /\ simple_last.windex >= 0
      /\ windex = simple_last.windex + 1
      /\ (simple_last.left = COMPONENT_NULL) #
           (simple_last.right = COMPONENT_NULL)
      /\ simple_last.slot = (IF simple_last.left # COMPONENT_NULL
                             THEN simple_last.left ELSE simple_last.right)) =>
       /\ simple_workers[simple_last.windex].left = simple_last.left
       /\ simple_workers[simple_last.windex].right = simple_last.right
       /\ belt[simple_workers[simple_last.windex].pos] = simple_last.slot

\* a worker of simple.c holding A in one hand has just been offered A, and a
\* worker of simple.c holds one A and one B
C12_Witness ==
  /\ simple_pc = "work"
  /\ simple_last.windex >= 0
  /\ windex = simple_last.windex + 1
  /\ simple_last.left = COMPONENT_NULL
  /\ simple_last.right = COMPONENT_A
  /\ simple_last.slot = COMPONENT_A
  /\ \E k \in 0..(NUMBER_OF_WORKERS - 1) :
       {simple_workers[k].left, simple_workers[k].right} =
         {COMPONENT_A, COMPONENT_B}

\* C13 as stated (Worker::doWork): the returned slot content is NULL exactly
\* when the offered item was taken into a hand in this activation, the
\* finished kind exactly when the countdown reached zero in this activation,
\* and otherwise the offered item; a taken item is not also returned.
C13_ReturnedExactlyWhen ==
  \A j \in 1..Len(log) :
    LET pre == IF j = 1 THEN NewWorker ELSE log[j - 1].w
        post == log[j].w
        taken == \/ (pre.leftHand = NULL /\ post.leftHand # NULL)
                 \/ (pre.rightHand = NULL /\ post.rightHand # NULL)
        finished == pre.amAssembling > 0 /\ post.amAssembling = 0
    IN /\ (log[j].returned = NULL) <=> taken
       /\ (log[j].returned = itemP) <=> finished
       /\ (~taken /\ ~finished) => log[j].returned = log[j].offered
       /\ taken => log[j].returned # log[j].offered

\* C13 amended (Worker::doWork): the returned slot content is NULL when the
\* offered item was taken into a hand in this activation, the finished kind
\* when the countdown reached zero in this activation, and otherwise the
\* offered content unchanged (NULL for an empty slot, possibly the finished
\* kind itself); a content that differs from the offered one is returned in
\* the first two cases only, and a taken item is not also returned.
C13_ReturnedSlotContent ==
  \A j \in 1..Len(log) :
    LET pre == IF j = 1 THEN NewWorker ELSE log[j - 1].w
        post == log[j].w
        taken == \/ (pre.leftHand = NULL /\ post.leftHand # NULL)
                 \/ (pre.rightHand = NULL /\ post.rightHand # NULL)
        finished == pre.amAssembling > 0 /\ post.amAssembling = 0
    IN /\ taken => /\ log[j].returned = NULL
                   /\ log[j].offered # NULL
                   /\ log[j].offered \in {post.leftHand, post.rightHand}
                   /\ ~finished
       /\ finished => log[j].returned = itemP
       /\ (~taken /\ ~finished) => log[j].returned = log[j].offered
       /\ log[j].returned # log[j].offered => (taken \/ finished)
       /\ (pre.leftHand # NULL => post.leftHand = pre.leftHand)
       /\ (pre.rightHand # NULL => post.rightHand = pre.rightHand)

\* one worker has taken an offered A (NULL returned), been offered an empty
\* slot without taking anything (NULL returned), taken B (NULL returned)
\* and returned P in the activation where its countdown reached zero
C13_Witness ==
  /\ Len(log) = MaxLog
  /\ log[1].offered = itemA /\ log[1].returned = NULL
  /\ log[1].w.leftHand = itemA
  /\ \E j \in 2..Len(log) :
       /\ log[j].offered = NULL /\ log[j].returned = NULL
       /\ log[j].w = [log[j - 1].w EXCEPT !.doneWork = TRUE]
  /\ \E j \in 2..Len(log) :
       /\ log[j].offered = itemB /\ log[j].returned = NULL
       /\ log[j].w.rightHand = itemB
  /\ log[Len(log)].w.amAssembling = 0
  /\ log[Len(log) - 1].w.amAssembling = 1
  /\ log[Len(log)].returned = itemP

\* C14 (ProductionLine::runSim, Belt::advanceBelt): every step of runSim
\* goes: the next item is generated and nothing else changes; the occupant of
\* the exit slot, which is the one the previous step left there, is tallied
\* and the belt is shifted; the generated item is written to slot 0; a
\* worker is selected; the worker is activated on its slot while slot 0 holds
\* the item generated in this step, and what it returns is written back to
\* its slot before the next step begins.
C14_StepOrder ==
  [][/\ pc = "rs_loop" =>
          /\ pc' \in {"rs_advance", "rs_error"}
          /\ UNCHANGED <<beltSlots, numberCollected, wobj>>
     /\ pc = "rs_advance" =>
          /\ pc' = "rs_insert"
          /\ next' = next
          /\ numberCollected' =
               IF beltSlots[numberOfSlots - 1] = NULL THEN numberCollected
               ELSE [numberCollected EXCEPT
                       ![beltSlots[numberOfSlots - 1]] = @ + 1]
          /\ \A s \in 0..(numberOfSlots - 2) : beltSlots'[s + 1] = beltSlots[s]
     /\ pc = "rs_insert" =>
          /\ pc' = "rs_select"
          /\ beltSlots' = [beltSlots EXCEPT ![0] = next]
          /\ UNCHANGED <<numberCollected, wobj>>
     /\ pc = "rs_select" =>
          /\ pc' = "rs_work"
          /\ beltSlots[0] = next
          /\ UNCHANGED <<beltSlots, numberCollected>>
     /\ (pc = "rs_work" /\ wk # NULLW) =>
          /\ pc' = "rs_loop"
          /\ i' = i + 1
          /\ beltSlots[0] = next
          /\ beltSlots' =
               [beltSlots EXCEPT ![wobj[wk].position] =
                  doWork(wobj[wk], beltSlots[wobj[wk].position],
                         finishedItems).out]
          /\ numberCollected' = numberCollected]_vars

\* a component that went along the whole belt has been tallied, and a
\* worker is about to be activated while slot 0 holds the B just generated
C14_Witness ==
  /\ pc = "rs_work"
  /\ wk # NULLW
  /\ i >= numberOfSlots
  /\ numberCollected[itemA] > 0
  /\ next = itemB
  /\ beltSlots[0] = itemB

\* C15 (ProductionLine::runSim): a run ends by returning; when no item draw
\* failed it returns after exactly `steps` iterations, and it returns
\* earlier only after an item draw that selected no kind.
C15_RunSimExecutesAllSteps ==
  /\ pc # "rs_crash"
  /\ pc = "rs_done" => i = steps
  /\ pc = "rs_error" => (next = NULL /\ i < steps)

C17_ProbabilitiesAreWeightShares ==
  totalItemWeighting > 0 =>
    LET sum[k \in 0..Len(itemsToMake)] ==
          IF k = 0 THEN 0
          ELSE sum[k - 1] + generationProbability[itemsToMake[k]]
        tolerance == Len(itemsToMake) * (FSpacing(FOne - 1) \div 2)
    IN /\ \A k \in 1..Len(itemsToMake) :
            generationProbability[itemsToMake[k]] =
              FDiv(weight[itemsToMake[k]], totalItemWeighting)
       /\ sum[Len(itemsToMake)] - FOne <= tolerance
       /\ FOne - sum[Len(itemsToMake)] <= tolerance

\* three kinds are registered; the first one registered has a positive
\* weight and so has one registered after it
C17_Witness ==
  /\ Len(itemsToMake) = Len(MainItems)
  /\ weight[itemsToMake[Len(itemsToMake)]] > 0
  /\ \E k \in 1..(Len(itemsToMake) - 1) : weight[itemsToMake[k]] > 0
  /\ generationProbability[itemsToMake[Len(itemsToMake)]] < FOne

\* C18 (Belt::advanceBelt, ItemType::incrementNumberCollected): no call
\* changes the weight of a kind (the recipe is fixed in the model);
\* advanceBelt(n) adds to the counter of every kind the number of the last n
\* slots that held the kind before the shift, and setSlot changes no counter.
C18_CountersChangeOnlyInAdvanceBelt ==
  [][/\ weight' = weight
     /\ beltCall'[1] = "advanceBelt" =>
          numberCollected' =
            [k \in ItemObjects |->
               numberCollected[k] +
                 Cardinality({s \in 0..(numberOfSlots - 1) :
                                /\ s >= numberOfSlots - beltCall'[2]
                                /\ beltSlots[s] = k})]
     /\ beltCall'[1] # "advanceBelt" =>
          numberCollected' = numberCollected]_vars

\* C19 (runSim, Worker::doWork): the number of finished items that
\* activations have put on the belt is at most the number of A and at most
\* the number of B that activations have taken off the belt.
C19_FinishedItemsUseUpComponents ==
  /\ putOn <= takenOff[itemA]
  /\ putOn <= takenOff[itemB]

\* C20 (Belt::advanceBelt, Belt::Belt): advanceBelt(n) with
\* 1 <= n <= numberOfSlots accesses beltSlots[0 .. numberOfSlots - 1] only:
\* the cell behind the last slot is as the constructor left it.
C20_AdvanceBeltStaysOnBelt ==
  beltSlots[numberOfSlots] = "uninitialized"

\* C21 (Worker::doWork, ItemType::assemble under runSim): no worker is
\* jammed: none has amAssembling = 0 and two non-empty hands holding a pair
\* that the finished kind's recipe does not accept.
C21_NoJammedWorker ==
  \A w \in 1..Len(wobj) :
    ~(/\ wobj[w].amAssembling = 0
      /\ wobj[w].leftHand # NULL
      /\ wobj[w].rightHand # NULL
      /\ assemble(finishedItems,
                  <<wobj[w].leftHand, wobj[w].rightHand>>) = NULL)

\* C22 (simple.c main, doWork): at every iteration boundary and for each raw
\* component X of A and B, the number of X placed on the input slot equals
\* the X tallied at the output, plus the X on the belt, plus the X in
\* workers' hands, plus the finished P tallied, on the belt or in a hand.
C22_ComponentsConserved ==
  simple_pc = "loop" =>
    LET onBelt(c) == Cardinality({s \in 0..OUTPUT_SLOT : belt[s] = c})
        inHands(c) ==
          Cardinality({k \in 0..(NUMBER_OF_WORKERS - 1) :
                         simple_workers[k].left = c})
          + Cardinality({k \in 0..(NUMBER_OF_WORKERS - 1) :
                           simple_workers[k].right = c})
        finished == compP + onBelt(COMPONENT_P) + inHands(COMPONENT_P)
    IN /\ simple_placed[COMPONENT_A] =
            compA + onBelt(COMPONENT_A) + inHands(COMPONENT_A) + finished
       /\ simple_placed[COMPONENT_B] =
            compB + onBelt(COMPONENT_B) + inHands(COMPONENT_B) + finished

\* at an iteration boundary a finished P has been tallied, a component is
\* on the belt and a worker holds a raw component
C22_Witness ==
  /\ simple_pc = "loop"
  /\ compP > 0
  /\ \E s \in 0..OUTPUT_SLOT : belt[s] \in {COMPONENT_A, COMPONENT_B}
  /\ \E k \in 0..(NUMBER_OF_WORKERS - 1) :
       simple_workers[k].right \in {COMPONENT_A, COMPONENT_B}

\* C23 (runSim of part_000, doWork of simple.c): one activation of a worker
\* changes nothing but that worker's hands, countdown and done flag and
\* the belt slot at that worker's position: every other slot, every other
\* worker and every counter of collected items stay as they were.
C23_ActivationFrame ==
  [][/\ (pc = "rs_work" /\ wk # NULLW) =>
          /\ \A s \in DOMAIN beltSlots :
               s # wobj[wk].position => beltSlots'[s] = beltSlots[s]
          /\ \A w \in 1..Len(wobj) : w # wk => wobj'[w] = wobj[w]
          /\ wobj'[wk] = [wobj[wk] EXCEPT
                            !.leftHand = wobj'[wk].leftHand,
                            !.rightHand = wobj'[wk].rightHand,
                            !.amAssembling = wobj'[wk].amAssembling,
                            !.doneWork = wobj'[wk].doneWork]
          /\ numberCollected' = numberCollected
     /\ (simple_pc = "work" /\ windex < NUMBER_OF_WORKERS
         /\ windex' = windex + 1) =>
          /\ \A s \in 0..OUTPUT_SLOT :
               s # simple_workers[windex].pos => belt'[s] = belt[s]
          /\ \A k \in 0..(NUMBER_OF_WORKERS - 1) :
               k # windex => simple_workers'[k] = simple_workers[k]
          /\ simple_workers'[windex].pos = simple_workers[windex].pos
          /\ UNCHANGED <<compA, compB, compP, compNull>>]_vars

\* in runSim an activation has just put a component into a hand of one
\* worker while the other worker holds a component, the entry slot holds
\* the item just generated and a component has been tallied at the exit
C23_Witness ==
  /\ pc = "rs_loop"
  /\ i > 0
  /\ wk # NULLW
  /\ takenOff[itemA] + takenOff[itemB] >= 2
  /\ \A w \in 1..Len(wobj) :
       wobj[w].leftHand # NULL /\ wobj[w].rightHand = NULL
  /\ beltSlots[wobj[wk].position] = NULL
  /\ beltSlots[0] = next
  /\ next \in {itemA, itemB}
  /\ numberCollected[itemA] + numberCollected[itemB] > 0

\* C24 (Worker::doWork): an activation puts the offered item into at most
\* one hand; a worker with both hands empty takes it into the left hand; the
\* right hand is filled only if the left hand was occupied before the
\* activation; so a non-empty right hand implies a non-empty left hand.
C24_LeftHandFirst ==
  \A j \in 1..Len(log) :
    LET pre == IF j = 1 THEN NewWorker ELSE log[j - 1].w
        post == log[j].w
        tookLeft == pre.leftHand = NULL /\ post.leftHand # NULL
        tookRight == pre.rightHand = NULL /\ post.rightHand # NULL
    IN /\ ~(tookLeft /\ tookRight)
       /\ (/\ pre.leftHand = NULL
           /\ pre.rightHand = NULL
           /\ ~EmptySlot(log[j].offered)) =>
            (post.leftHand = log[j].offered /\ post.rightHand = NULL)
       /\ tookRight => pre.leftHand # NULL
       /\ post.rightHand # NULL => post.leftHand # NULL

\* a worker with empty hands took B into its left hand, refused a second B
\* and then took A into its right hand
C24_Witness ==
  /\ Len(log) >= 3
  /\ log[1].offered = itemB
  /\ log[1].w.leftHand = itemB /\ log[1].w.rightHand = NULL
  /\ log[2].offered = itemB
  /\ log[2].returned = itemB
  /\ log[3].offered = itemA
  /\ log[3].w.leftHand = itemB /\ log[3].w.rightHand = itemA

\* C25 (Belt::advanceBelt): when advanceBelt has returned, the done-work
\* flag of every registered worker is false and
\* currentWorkerMaxProbability is 1.0.
C25_AdvanceBeltResetsWorkers ==
  (pc = "sc_select" /\ returned = <<>>) =>
    /\ \A w \in 1..Len(wobj) : ~wobj[w].doneWork
    /\ \A k \in 1..Len(workers) : ~wobj[workers[k]].doneWork
    /\ currentWorkerMaxProbability = FOne

\* advanceBelt has returned after an interval in which doWork was called on
\* every one of at least two workers
C25_Witness ==
  /\ pc = "sc_select"
  /\ returned = <<>>
  /\ Len(workers) >= 2
  /\ wk # NULLW

\* C26 (Belt::getNextWorker, Belt::addWorker): when getNextWorker is about
\* to be called, doWork having been called on every worker selected before,
\* currentWorkerMaxProbability is the sum of the work probabilities of the
\* workers whose done-work flag is false (added up in list order, as
\* getNextWorker adds them); and the worker it returns has a false flag.
C26_RemainingSpaceIsSumOfNotDone ==
  /\ pc = "sc_select" =>
       LET sum[k \in 0..Len(workers)] ==
             IF k = 0 THEN 0
             ELSE IF wobj[workers[k]].doneWork THEN sum[k - 1]
             ELSE FAdd(sum[k - 1], wobj[workers[k]].workProbability)
       IN currentWorkerMaxProbability = sum[Len(workers)]
  /\ pc = "sc_work" => ~wobj[wk].doneWork

====
